---- MODULE Spec2Model ----
(***************************************************************************)
(* A model of cloudflare-webdav-rs: the WebDAV adapter of src/lib.rs over  *)
(* a flat R2 bucket, with the DAV fragment builder of src/dav.rs.          *)
(*                                                                         *)
(* Strings of the program that the code takes apart (paths, keys, header   *)
(* values, bodies) are sequences of one-character strings; strings it only *)
(* compares or emits whole (method names, content types, messages) are     *)
(* TLA+ strings.  An Option is a sequence of length 0 (None) or 1 (Some).  *)
(***************************************************************************)
EXTENDS Integers, Sequences, FiniteSets, TLC

None == <<>>
Some(x) == <<x>>

(***************************************************************************)
(* Bounds of the model.                                                    *)
(***************************************************************************)
\* The most objects the bucket holds (PUT and MKCOL are not taken beyond it).
MaxObjects == 2
\* The most objects the backend returns in one page of a listing.
PageLimit == 1

(***************************************************************************)
(* Characters and the std::str operations the handlers use.                *)
(***************************************************************************)
\* The byte of each character (ASCII), for base64 and for the key order.
Code ==
  [c \in {"/", ":", "=", " ", "B", "a", "b", "c", "i", "p", "s", "u", "w", "x", "y"} |->
     CASE c = "/" -> 47 [] c = ":" -> 58 [] c = "=" -> 61 [] c = " " -> 32
       [] c = "B" -> 66 [] c = "a" -> 97 [] c = "b" -> 98 [] c = "c" -> 99
       [] c = "i" -> 105 [] c = "p" -> 112 [] c = "s" -> 115 [] c = "u" -> 117
       [] c = "w" -> 119 [] c = "x" -> 120 [] c = "y" -> 121]

\* str::starts_with
starts_with(s, p) == Len(p) <= Len(s) /\ SubSeq(s, 1, Len(p)) = p

\* str::ends_with(char)
ends_with(s, c) == Len(s) > 0 /\ s[Len(s)] = c

\* str::contains(char)
contains(s, c) == \E i \in 1..Len(s) : s[i] = c

RECURSIVE trim_start_matches(_, _)
\* str::trim_start_matches(char): every leading c is removed
trim_start_matches(s, c) ==
  IF Len(s) > 0 /\ s[1] = c THEN trim_start_matches(Tail(s), c) ELSE s

RECURSIVE trim_end_matches(_, _)
\* str::trim_end_matches(char): every trailing c is removed
trim_end_matches(s, c) ==
  IF Len(s) > 0 /\ s[Len(s)] = c
  THEN trim_end_matches(SubSeq(s, 1, Len(s) - 1), c) ELSE s

\* str::trim_matches(char)
trim_matches(s, c) == trim_end_matches(trim_start_matches(s, c), c)

\* s.split(c).next().unwrap(): the part of s before its first c (all of s if none)
split_first(s, c) ==
  IF contains(s, c)
  THEN SubSeq(s, 1, (CHOOSE i \in 1..Len(s) :
                        s[i] = c /\ \A j \in 1..(i - 1) : s[j] # c) - 1)
  ELSE s

\* &s[n..]
slice_from(s, n) == SubSeq(s, n + 1, Len(s))

(***************************************************************************)
(* base64::engine::general_purpose::STANDARD.encode                        *)
(***************************************************************************)
B64Alphabet ==
  << "A","B","C","D","E","F","G","H","I","J","K","L","M","N","O","P",
     "Q","R","S","T","U","V","W","X","Y","Z","a","b","c","d","e","f",
     "g","h","i","j","k","l","m","n","o","p","q","r","s","t","u","v",
     "w","x","y","z","0","1","2","3","4","5","6","7","8","9","+","/" >>

B64Char(n) == B64Alphabet[(n % 64) + 1]

\* the four characters of a group of three bytes, n the group as a number
B64Group(n) ==
  << B64Char(n \div 262144), B64Char(n \div 4096), B64Char(n \div 64), B64Char(n) >>

RECURSIVE b64_encode(_)
\* three bytes become four characters; a last group of one or two bytes is
\* padded with "="
b64_encode(s) ==
  IF Len(s) = 0 THEN <<>>
  ELSE IF Len(s) = 1
  THEN SubSeq(B64Group(Code[s[1]] * 65536), 1, 2) \o <<"=", "=">>
  ELSE IF Len(s) = 2
  THEN SubSeq(B64Group(Code[s[1]] * 65536 + Code[s[2]] * 256), 1, 3) \o <<"=">>
  ELSE B64Group(Code[s[1]] * 65536 + Code[s[2]] * 256 + Code[s[3]])
         \o b64_encode(SubSeq(s, 4, Len(s)))

(***************************************************************************)
(* The R2 bucket: a flat map from key to object.  A stored object is       *)
(* [body, content_type]; content_type is the http metadata's content type, *)
(* an Option.  Timestamps and etags are left out: no handler branches on   *)
(* them.                                                                   *)
(***************************************************************************)
\* worker::Object as head, get and list return it
ObjectOf(bucket, k) ==
  [key |-> k, size |-> Len(bucket[k].body), body |-> bucket[k].body,
   content_type |-> bucket[k].content_type]

\* bucket.head(key) / bucket.get(key): the object, or None
bucket_head(bucket, k) ==
  IF k \in DOMAIN bucket THEN Some(ObjectOf(bucket, k)) ELSE None

\* bucket.put(key, data).execute() as the handlers call it: no http metadata
\* is passed, so the stored object has no content type
bucket_put(bucket, k, data) ==
  [x \in (DOMAIN bucket) \cup {k} |->
     IF x = k THEN [body |-> data, content_type |-> None] ELSE bucket[x]]

\* bucket.delete(key): removing an absent key is not an error
bucket_delete(bucket, k) ==
  [x \in (DOMAIN bucket) \ {k} |-> bucket[x]]

RECURSIVE KeyLess(_, _)
\* R2 lists keys in lexicographic order of their bytes
KeyLess(a, b) ==
  IF Len(a) = 0 THEN Len(b) > 0
  ELSE IF Len(b) = 0 THEN FALSE
  ELSE IF a[1] = b[1] THEN KeyLess(Tail(a), Tail(b))
  ELSE Code[a[1]] < Code[b[1]]

RECURSIVE SortedKeys(_)
RECURSIVE SortedFrom(_, _)
\* the keys of S in that order
SortedKeys(S) ==
  IF S = {} THEN <<>> ELSE SortedFrom(S, CHOOSE k \in S : \A o \in S \ {k} : KeyLess(k, o))

SortedFrom(S, m) == <<m>> \o SortedKeys(S \ {m})

\* The keys a listing with this prefix matches: every key when the prefix is
\* empty (list_all_files sets no prefix then), else the keys that start with
\* it as a string.
Matching(bucket, prefix) ==
  {k \in DOMAIN bucket : Len(prefix) = 0 \/ starts_with(k, prefix)}

\* The page of the matching keys `all` from position start + 1 to stop, with
\* a cursor when more keys follow.  The cursor is opaque to the caller; the
\* model's cursor is the number of matching objects already returned.
ListPage(bucket, all, start, stop) ==
  [objects   |-> [i \in 1..(stop - start) |-> ObjectOf(bucket, all[start + i])],
   truncated |-> stop < Len(all),
   cursor    |-> IF stop < Len(all) THEN Some(stop) ELSE None]

ListFrom(bucket, all, start) ==
  ListPage(bucket, all, start,
           IF start + PageLimit < Len(all) THEN start + PageLimit ELSE Len(all))

\* list_req.execute(): one page of at most PageLimit objects
bucket_list(bucket, prefix, cursor) ==
  ListFrom(bucket, SortedKeys(Matching(bucket, prefix)),
           IF cursor = None THEN 0 ELSE cursor[1])

RECURSIVE list_loop(_, _, _, _, _)
RECURSIVE list_page(_, _, _, _, _)
\* the loop of list_all_files, one turn: the list call for the cursor
list_loop(bucket, prefix, cursor, files, calls) ==
  list_page(bucket, prefix, bucket_list(bucket, prefix, cursor), files,
            Append(calls, <<"list", prefix, cursor>>))

\* the rest of a turn of the loop that ends at the first page, truncated or not
list_page_first(bucket, prefix, objects, files, calls) ==
  [files |-> files \o objects.objects, calls |-> calls]

\* the rest of the turn: the page's objects are added, and the loop ends at a
\* page that is not truncated, else goes on with the page's cursor
list_page(bucket, prefix, objects, files, calls) ==
  IF ~objects.truncated
  THEN [files |-> files \o objects.objects, calls |-> calls]
  ELSE list_loop(bucket, prefix, objects.cursor, files \o objects.objects, calls)

\* the files, and the list calls issued for them
list_all_files(bucket, prefix) == list_loop(bucket, prefix, None, <<>>, <<>>)

(***************************************************************************)
(* Requests and responses.                                                 *)
(*   request:  [method, path, authorization, depth, timeout, range,        *)
(*             content_type, lock_token, body]; a header is an Option      *)
(*   response: [status, www_authenticate, dav, allow, content_type, text,  *)
(*             stream, frags, lock, cors]                                  *)
(* text is the message or page of a textual body, stream the bytes of an   *)
(* object body (an Option), frags the <response> fragments of a            *)
(* multistatus in document order, lock the depth and timeout an activelock *)
(* document echoes.  A handler's result is                                 *)
(* [resp, bucket, calls]: the response, the bucket after it, and the       *)
(* backend calls it issued, in order.                                      *)
(***************************************************************************)
METHODS ==
  << "GET", "DELETE", "PROPPATCH", "HEAD", "OPTIONS", "MKCOL", "PROPFIND", "COPY", "MOVE" >>

EmptyResponse ==
  [status |-> 200, www_authenticate |-> None, dav |-> None, allow |-> None,
   content_type |-> None, text |-> "", stream |-> None, frags |-> <<>>,
   lock |-> None, cors |-> FALSE]

\* Response::error(msg, status)
ResponseError(msg, status) == [EmptyResponse EXCEPT !.status = status, !.text = msg]

\* Response::empty()?.with_status(status)
ResponseEmpty(status) == [EmptyResponse EXCEPT !.status = status]

\* A handler that returns Err (a `?` on a backend error or on ok_or): the
\* worker runtime answers for it with a server error.
ResponseFailed(msg) == [EmptyResponse EXCEPT !.status = 500, !.text = msg]

Result(resp, bucket, calls) == [resp |-> resp, bucket |-> bucket, calls |-> calls]

\* url.path().trim_matches('/')
KeyOf(path) == trim_matches(path, "/")

(***************************************************************************)
(* DavBuilder (src/dav.rs): one <response> fragment.                       *)
(***************************************************************************)
\* DavBuilder::new().object(href, object).build(): the href, and the
\* properties taken from the object or, without one, the directory defaults
DavFragment(href, object) ==
  IF object = None
  THEN [href |-> href, resourcetype |-> "<collection />",
        getcontentlength |-> None, getcontenttype |-> "httpd/unix-directory"]
  ELSE [href |-> href, resourcetype |-> "",
        getcontentlength |-> Some(object[1].size),
        getcontenttype |-> IF object[1].content_type = None
                           THEN "httpd/unix-directory"
                           ELSE object[1].content_type[1]]

(***************************************************************************)
(* The handlers of src/lib.rs.                                             *)
(***************************************************************************)
\* handle_options taking its Allow header from a head of the key
handle_options_head(req, bucket) ==
  Result([ResponseEmpty(204) EXCEPT !.dav = Some("1, 2"), !.allow = Some(METHODS)],
         bucket, << <<"head", KeyOf(req.path)>> >>)

handle_options(req, bucket) ==
  Result([ResponseEmpty(204) EXCEPT !.dav = Some("1, 2"), !.allow = Some(METHODS)],
         bucket, <<>>)

\* get_headers: Content-Type is the stored content type, or
\* application/octet-stream
get_headers(object) ==
  IF object.content_type = None THEN Some("application/octet-stream")
  ELSE object.content_type

\* the rest of handle_get once the path does not end in '/' and no Range
\* header is present: object is what bucket.get(key) returned
get_object(bucket, key, object) ==
  IF object = None
  THEN Result(ResponseFailed("Object is None"), bucket, << <<"get", key>> >>)
  ELSE Result([EmptyResponse EXCEPT !.stream = Some(object[1].body),
                                    !.content_type = get_headers(object[1])],
              bucket, << <<"get", key>> >>)

\* handle_get without the test of the Range header
handle_get_ranged(req, bucket) ==
  IF ends_with(req.path, "/")
  THEN Result([EmptyResponse EXCEPT !.text = "404 Not Found page",
                                    !.content_type = Some("text/html")],
              bucket, <<>>)
  ELSE get_object(bucket, KeyOf(req.path), bucket_head(bucket, KeyOf(req.path)))

handle_get(req, bucket) ==
  IF ends_with(req.path, "/")
  THEN Result([EmptyResponse EXCEPT !.text = "404 Not Found page",
                                    !.content_type = Some("text/html")],
              bucket, <<>>)
  ELSE IF req.range = None
  THEN get_object(bucket, KeyOf(req.path), bucket_head(bucket, KeyOf(req.path)))
  ELSE Result(ResponseError("Method Not allowed", 405), bucket, <<>>)

\* Response::empty() with the status and the headers of res
head_of(res) ==
  Result([res.resp EXCEPT !.text = "", !.stream = None], res.bucket, res.calls)

handle_head(req, bucket) == head_of(handle_get(req, bucket))

RECURSIVE delete_each(_, _, _, _)
\* for f in files { bucket.delete(f.key()).await?; }
delete_each(bucket, files, i, calls) ==
  IF i > Len(files) THEN [bucket |-> bucket, calls |-> calls]
  ELSE delete_each(bucket_delete(bucket, files[i].key), files, i + 1,
                   Append(calls, <<"delete", files[i].key>>))

\* the last lines of handle_delete: bucket.delete(key), then 204
delete_key(done, key) ==
  Result(ResponseEmpty(204), bucket_delete(done.bucket, key),
         Append(done.calls, <<"delete", key>>))

\* the branch of handle_delete for source.is_none(): listed is what
\* list_all_files(&bucket, key) returned
delete_listed(bucket, key, listed) ==
  IF Len(listed.files) = 0
  THEN Result(ResponseError("Not Found", 404), bucket,
              << <<"head", key>> >> \o listed.calls)
  ELSE delete_key(delete_each(bucket, listed.files, 1,
                              << <<"head", key>> >> \o listed.calls), key)

\* handle_delete without the head of the key: every request takes the listing
delete_at_listing(bucket, key) ==
  delete_listed(bucket, key, list_all_files(bucket, key))

delete_at(bucket, key) ==
  IF bucket_head(bucket, key) = None
  THEN delete_listed(bucket, key, list_all_files(bucket, key))
  ELSE delete_key([bucket |-> bucket, calls |-> << <<"head", key>> >>], key)

handle_delete(req, bucket) == delete_at(bucket, KeyOf(req.path))

\* handle_mkcol without the head of the flag: it creates the marker anew
mkcol_flag_unchecked(bucket, flag) ==
  Result(ResponseEmpty(201), bucket_put(bucket, flag, <<>>),
         << <<"put", flag>> >>)

\* handle_mkcol once the key is not empty: flag is key + "/"
mkcol_flag(bucket, flag) ==
  IF bucket_head(bucket, flag) # None
  THEN Result(ResponseError("Conflict", 409), bucket, << <<"head", flag>> >>)
  ELSE Result(ResponseEmpty(201), bucket_put(bucket, flag, <<>>),
              << <<"head", flag>>, <<"put", flag>> >>)

handle_mkcol(req, bucket) ==
  IF Len(KeyOf(req.path)) = 0
  THEN Result(ResponseError("Method Not Found", 405), bucket, <<>>)
  ELSE mkcol_flag(bucket, KeyOf(req.path) \o <<"/">>)

\* handle_put once the key is not empty
put_at(bucket, key, data) ==
  Result(ResponseEmpty(201), bucket_put(bucket, key, data), << <<"put", key>> >>)

\* handle_put without the test of the empty key
handle_put_any_key(req, bucket) == put_at(bucket, KeyOf(req.path), req.body)

handle_put(req, bucket) ==
  IF Len(KeyOf(req.path)) = 0
  THEN Result(ResponseError("Method Not Found", 405), bucket, <<>>)
  ELSE put_at(bucket, KeyOf(req.path), req.body)

RECURSIVE propfind_children(_, _, _, _, _)
RECURSIVE propfind_child(_, _, _, _, _, _)
RECURSIVE propfind_folder(_, _, _, _, _, _)
\* the loop of handle_propfind over the listed objects: keys is the Vec of
\* names already seen, xml the fragments emitted so far
propfind_children(key, objects, i, keys, xml) ==
  IF i > Len(objects) THEN xml
  ELSE propfind_child(key, objects, i, keys, xml,
         trim_start_matches(slice_from(objects[i].key, Len(key)), "/"))

\* the body of the loop for object i, o_key its key without the request's key
\* and without leading '/'
propfind_child(key, objects, i, keys, xml, o_key) ==
  IF ~contains(o_key, "/")
  THEN propfind_children(key, objects, i + 1, keys,
         Append(xml, DavFragment(<<"/">> \o objects[i].key, Some(objects[i]))))
  ELSE propfind_folder(key, objects, i, keys, xml, split_first(o_key, "/"))

\* "handle sub directory": a fragment for folder_name unless keys holds it
propfind_folder(key, objects, i, keys, xml, folder_name) ==
  IF \A j \in 1..Len(keys) : keys[j] # folder_name
  THEN propfind_children(key, objects, i + 1, Append(keys, folder_name),
         Append(xml, DavFragment(<<"/">> \o folder_name, None)))
  ELSE propfind_children(key, objects, i + 1, keys, xml)

\* Response::ok(page) with Content-Type text/xml
Multistatus(frags) ==
  [EmptyResponse EXCEPT !.content_type = Some("text/xml"), !.frags = frags]

\* the "1" arm: listed is what list_all_files(&bucket, key) returned
propfind_listed(bucket, key, listed) ==
  IF Len(listed.files) = 0
  THEN Result(ResponseError("Not Found", 404), bucket, listed.calls)
  ELSE Result(Multistatus(propfind_children(key, listed.files, 1, <<key>>,
                            << DavFragment(<<"/">> \o key, None) >>)),
              bucket, listed.calls)

\* propfind_object falling back to a listing of the key when no object is
\* stored at it
propfind_object_fallback(bucket, key, object) ==
  IF object # None
  THEN Result(Multistatus(<< DavFragment(<<"/">> \o object[1].key, object) >>),
              bucket, << <<"head", key>> >>)
  ELSE propfind_listed(bucket, key, list_all_files(bucket, key))

\* the first branch of handle_propfind: object is what bucket.head(key) returned
propfind_object(bucket, key, object) ==
  IF object # None
  THEN Result(Multistatus(<< DavFragment(<<"/">> \o object[1].key, object) >>),
              bucket, << <<"head", key>> >>)
  ELSE Result(ResponseError("Not Found", 404), bucket, << <<"head", key>> >>)

\* the match on the Depth header without its "infinity" arm
propfind_depth_no_infinity(bucket, key, depth) ==
  CASE depth = "0" ->
         Result(Multistatus(<< DavFragment(<<"/">> \o key, None) >>), bucket, <<>>)
    [] depth = "1" -> propfind_listed(bucket, key, list_all_files(bucket, key))
    [] OTHER -> Result(ResponseError("Forbidden", 403), bucket, <<>>)

\* the match on the Depth header
propfind_depth(bucket, key, depth) ==
  CASE depth = "0" ->
         Result(Multistatus(<< DavFragment(<<"/">> \o key, None) >>), bucket, <<>>)
    [] depth = "1" -> propfind_listed(bucket, key, list_all_files(bucket, key))
    [] depth = "infinity" -> Result(ResponseError("Not Implemented", 501), bucket, <<>>)
    [] OTHER -> Result(ResponseError("Forbidden", 403), bucket, <<>>)

propfind_at(req, bucket, key) ==
  IF ~ends_with(req.path, "/") /\ Len(key) # 0
  THEN propfind_object(bucket, key, bucket_head(bucket, key))
  ELSE propfind_depth(bucket, key, IF req.depth = None THEN "1" ELSE req.depth[1])

handle_propfind(req, bucket) == propfind_at(req, bucket, KeyOf(req.path))

\* handle_lock keeping a record of the lock in the bucket
handle_lock_stored(req, bucket) ==
  Result([EmptyResponse EXCEPT
            !.text = "activelock",
            !.lock = Some([depth   |-> IF req.depth = None THEN "0" ELSE req.depth[1],
                           timeout |-> IF req.timeout = None THEN "Infinite"
                                       ELSE req.timeout[1]])],
         bucket_put(bucket, KeyOf(req.path) \o <<"/">>, <<>>),
         << <<"put", KeyOf(req.path) \o <<"/">>>> >>)

\* the canned activelock document, echoing Depth and Timeout
handle_lock(req, bucket) ==
  Result([EmptyResponse EXCEPT
            !.text = "activelock",
            !.lock = Some([depth   |-> IF req.depth = None THEN "0" ELSE req.depth[1],
                           timeout |-> IF req.timeout = None THEN "Infinite"
                                       ELSE req.timeout[1]])],
         bucket, <<>>)

\* the UNLOCK closure of dispatch_request
handle_unlock(req, bucket) == Result(ResponseEmpty(204), bucket, <<>>)

\* handle_proppatch, handle_copy, handle_move: todo!() panics; the runtime
\* answers for the failed invocation
handle_todo(req, bucket) ==
  Result(ResponseFailed("not yet implemented"), bucket, <<>>)

\* the name of the handler the table of dispatch_request holds for a method
HandlerOf(method) ==
  IF method \in {"GET", "DELETE", "PROPPATCH", "PUT", "HEAD", "OPTIONS", "MKCOL",
                 "PROPFIND", "COPY", "MOVE", "LOCK", "UNLOCK"}
  THEN Some(method) ELSE None

dispatch_request(req, bucket) ==
  CASE req.method = "GET" -> handle_get(req, bucket)
    [] req.method = "DELETE" -> handle_delete(req, bucket)
    [] req.method \in {"PROPPATCH", "COPY", "MOVE"} -> handle_todo(req, bucket)
    [] req.method = "PUT" -> handle_put(req, bucket)
    [] req.method = "HEAD" -> handle_head(req, bucket)
    [] req.method = "OPTIONS" -> handle_options(req, bucket)
    [] req.method = "MKCOL" -> handle_mkcol(req, bucket)
    [] req.method = "PROPFIND" -> handle_propfind(req, bucket)
    [] req.method = "LOCK" -> handle_lock(req, bucket)
    [] req.method = "UNLOCK" -> handle_unlock(req, bucket)
    [] OTHER -> Result(ResponseError("Method Not allowed", 405), bucket, <<>>)

\* format!("Basic {}", b64) with b64 the encoding of "username:password"
BasicCredential(username, password) ==
  <<"B", "a", "s", "i", "c", " ">> \o b64_encode(username \o <<":">> \o password)

\* the first arm of main's match: the dispatcher's response, with_cors
dispatched_result(req, res) ==
  [resp |-> [res.resp EXCEPT !.cors = TRUE], bucket |-> res.bucket,
   calls |-> res.calls, dispatched |-> TRUE, handler |-> HandlerOf(req.method)]

\* main with a gate that compares the scheme alone: any header that starts
\* with "Basic " is let through
main_scheme_only(req, bucket, username, password) ==
  IF req.authorization # None
     /\ starts_with(req.authorization[1], <<"B", "a", "s", "i", "c", " ">>)
  THEN dispatched_result(req, dispatch_request(req, bucket))
  ELSE [resp |-> [ResponseError("Unauthorized", 401) EXCEPT
                    !.www_authenticate = Some("Basic realm=\"webdav\"")],
        bucket |-> bucket, calls |-> <<>>, dispatched |-> FALSE, handler |-> None]

\* main: the gate, then the dispatcher and the CORS decoration.  The result
\* also says whether the request reached dispatch_request, and the handler
\* it was handed to.
main(req, bucket, username, password) ==
  IF req.authorization # None /\ req.authorization[1] = BasicCredential(username, password)
  THEN dispatched_result(req, dispatch_request(req, bucket))
  ELSE [resp |-> [ResponseError("Unauthorized", 401) EXCEPT
                    !.www_authenticate = Some("Basic realm=\"webdav\"")],
        bucket |-> bucket, calls |-> <<>>, dispatched |-> FALSE, handler |-> None]

(***************************************************************************)
(* The state: the bucket, the configured credentials, and the request      *)
(* being served with its response, the backend calls it issued, whether it *)
(* reached dispatch_request and the handler it was handed to (all empty    *)
(* between two requests).  Two history variables record what the claims    *)
(* about sequences of requests speak of: created, the keys a MKCOL         *)
(* answered 201 for with no DELETE dispatched since, each with a flag that *)
(* tells whether a request of another method has been dispatched since;    *)
(* last_put, the key, body and Content-Type of the last PUT answered 201,  *)
(* with no PUT, MKCOL or DELETE dispatched since.                          *)
(* invocations is used by the specification of concurrent invocations      *)
(* further down, where each backend call is a step of its own; here, where *)
(* a request is served in one step, it stays as it starts.                 *)
(***************************************************************************)
VARIABLES bucket, USERNAME, PASSWORD, request, response, calls, dispatched, handler,
          created, last_put, invocations

vars == <<bucket, USERNAME, PASSWORD, request, response, calls, dispatched, handler,
          created, last_put, invocations>>

\* The inputs of the model.
Usernames == { <<"u">> }
Passwords == { <<"p", "w">> }
Paths ==
  { <<"/">>, <<"/", "a">>, <<"/", "a", "/">>, <<"/", "a", "/", "b">>,
    <<"/", "a", "/", "a", "/", "b">>, <<"/", "a", "b", "/", "b">>,
    <<"/", "a", "/", "b", "/", "b">> }
Depths == { None, Some("0"), Some("1"), Some("infinity"), Some("2") }
Ranges == { None, Some("bytes=0-0") }
\* the Lock-Token header of an UNLOCK: none, and a token nobody was given
LockTokens == { None, Some("x") }
\* the body and the Content-Type header of a PUT
Uploads ==
  { [body |-> <<"x">>, content_type |-> Some("text/plain")],
    [body |-> <<"y">>, content_type |-> Some("application/octet-stream")] }

\* The invocations of main that can be in flight at once, and one that is not
\* serving a request.  An invocation in flight is at a backend call (pc) of
\* the handler of its method; files, cursor and i are the locals of
\* list_all_files and of the loop of handle_delete, calls the backend calls
\* issued so far with their outcome, status the status of the response.
\* Two fields record history: at is the call a failed invocation failed at,
\* peers what was in flight at the same time: "none", "delete" when a DELETE
\* request was, "other" when only requests of other methods were.
Workers == {1, 2}
Idle ==
  [pc |-> "idle", method |-> "", key |-> <<>>, files |-> <<>>, cursor |-> None,
   i |-> 0, calls |-> <<>>, status |-> 0, at |-> "", peers |-> "none"]

\* The Authorization header the gate accepts.
Authorized(username, password) == Some(BasicCredential(username, password))

\* Authorization headers it does not: absent, the value for a password one
\* character short, and the encoding without "Basic ".
Unauthorized(username, password) ==
  { None,
    Some(BasicCredential(username, SubSeq(password, 1, Len(password) - 1))),
    Some(b64_encode(username \o <<":">> \o password)) }

Request(method, path, auth) ==
  [method |-> method, path |-> path, authorization |-> auth, depth |-> None,
   timeout |-> None, range |-> None, content_type |-> None, lock_token |-> None,
   body |-> <<>>]

NoRequest == Request("", <<"/">>, None)

Init ==
  /\ bucket = <<>>
  /\ USERNAME \in Usernames
  /\ PASSWORD \in Passwords
  /\ request = NoRequest
  /\ response = EmptyResponse
  /\ calls = <<>>
  /\ dispatched = FALSE
  /\ handler = None
  /\ created = {}
  /\ last_put = None
  /\ invocations = [w \in Workers |-> Idle]

\* the entries of created once one more request has been dispatched
Between(c) == {[key |-> x.key, between |-> TRUE] : x \in c}

\* The state after a request whose result (of main) is res.
Served(req, res) ==
  /\ Cardinality(DOMAIN res.bucket) <= MaxObjects
  /\ bucket' = res.bucket
  /\ request' = req
  /\ response' = res.resp
  /\ calls' = res.calls
  /\ dispatched' = res.dispatched
  /\ handler' = res.handler
  /\ created' =
       IF res.dispatched /\ req.method = "DELETE" THEN {}
       ELSE IF res.dispatched /\ req.method = "MKCOL" /\ res.resp.status = 201
       THEN Between(created) \cup {[key |-> KeyOf(req.path), between |-> FALSE]}
       ELSE IF res.dispatched /\ req.method # "MKCOL"
       THEN Between(created)
       ELSE created
  /\ last_put' =
       IF res.dispatched /\ req.method = "PUT" /\ res.resp.status = 201
       THEN Some([key |-> KeyOf(req.path), body |-> req.body,
                  content_type |-> req.content_type])
       ELSE IF res.dispatched /\ req.method \in {"PUT", "MKCOL", "DELETE"}
       THEN None
       ELSE last_put
  /\ UNCHANGED <<USERNAME, PASSWORD, invocations>>

\* One request served from start to end: main, and with it the handler.
\* The worker takes the next request when the last response is delivered.
Serve(req) ==
  /\ request = NoRequest
  /\ \E res \in {main(req, bucket, USERNAME, PASSWORD)} : Served(req, res)

GetRequest ==
  \E path \in Paths, range \in Ranges :
    Serve([Request("GET", path, Authorized(USERNAME, PASSWORD)) EXCEPT !.range = range])

HeadRequest ==
  \E path \in Paths :
    Serve(Request("HEAD", path, Authorized(USERNAME, PASSWORD)))

PutRequest ==
  \E path \in Paths, upload \in Uploads :
    Serve([Request("PUT", path, Authorized(USERNAME, PASSWORD)) EXCEPT
             !.body = upload.body, !.content_type = upload.content_type])

DeleteRequest ==
  \E path \in Paths :
    Serve(Request("DELETE", path, Authorized(USERNAME, PASSWORD)))

MkcolRequest ==
  \E path \in Paths :
    Serve(Request("MKCOL", path, Authorized(USERNAME, PASSWORD)))

PropfindRequest ==
  \E path \in Paths, depth \in Depths :
    Serve([Request("PROPFIND", path, Authorized(USERNAME, PASSWORD)) EXCEPT
             !.depth = depth])

OptionsRequest ==
  \E path \in Paths :
    Serve(Request("OPTIONS", path, Authorized(USERNAME, PASSWORD)))

LockRequest ==
  \E path \in Paths,
     header \in {<<None, None>>, <<Some("infinity"), Some("Second-60")>>} :
    Serve([Request("LOCK", path, Authorized(USERNAME, PASSWORD)) EXCEPT
             !.depth = header[1], !.timeout = header[2]])

UnlockRequest ==
  \E path \in Paths, token \in LockTokens :
    Serve([Request("UNLOCK", path, Authorized(USERNAME, PASSWORD)) EXCEPT
             !.lock_token = token])

\* PROPPATCH, COPY and MOVE
TodoRequest ==
  \E method \in {"PROPPATCH", "COPY", "MOVE"}, path \in Paths :
    Serve(Request(method, path, Authorized(USERNAME, PASSWORD)))

\* a method the table of dispatch_request does not hold
OtherRequest ==
  \E path \in Paths :
    Serve(Request("POST", path, Authorized(USERNAME, PASSWORD)))

\* a request of any method without the accepted Authorization header
UnauthorizedRequest ==
  \E auth \in Unauthorized(USERNAME, PASSWORD),
     method \in {"GET", "HEAD", "PUT", "DELETE", "MKCOL", "PROPFIND", "OPTIONS",
                 "LOCK", "UNLOCK", "PROPPATCH", "COPY", "MOVE", "POST"},
     path \in {<<"/", "a">>, <<"/", "a", "/", "b">>} :
    Serve([Request(method, path, auth) EXCEPT !.body = <<"x">>])

\* The response leaves the worker: the invocation ends.
Deliver ==
  /\ request # NoRequest
  /\ request' = NoRequest
  /\ response' = EmptyResponse
  /\ calls' = <<>>
  /\ dispatched' = FALSE
  /\ handler' = None
  /\ UNCHANGED <<bucket, USERNAME, PASSWORD, created, last_put, invocations>>

Next ==
  \/ GetRequest
  \/ HeadRequest
  \/ PutRequest
  \/ DeleteRequest
  \/ MkcolRequest
  \/ PropfindRequest
  \/ OptionsRequest
  \/ LockRequest
  \/ UnlockRequest
  \/ TodoRequest
  \/ OtherRequest
  \/ UnauthorizedRequest
  \/ Deliver

Spec == Init /\ [][Next]_vars

(***************************************************************************)
(* What the properties below speak of.                                     *)
(***************************************************************************)
\* the key of the request being served
Key == KeyOf(request.path)

\* a request of this method is being served and has passed the gate
Serving(method) == request # NoRequest /\ dispatched /\ request.method = method

\* the request's path names a directory for handle_propfind: it ends in '/',
\* or its key is empty
DirectoryPath == ends_with(request.path, "/") \/ Len(Key) = 0

\* key k lies under directory K: it begins with K followed by '/'
Under(K, k) == starts_with(k, K \o <<"/">>)

\* the backend operations among the calls of the request
CallKinds == {calls[i][1] : i \in 1..Len(calls)}

(***************************************************************************)
(* C1.  The request gate: a request whose Authorization header is absent   *)
(* or is not exactly "Basic " + base64(username:password) is answered 401  *)
(* with WWW-Authenticate: Basic realm="webdav", reaches no handler, issues *)
(* no backend call and leaves the bucket as it was; a request with the     *)
(* exact value reaches the dispatcher.                                     *)
(***************************************************************************)
C1_RequestGate ==
  [][ request' # NoRequest =>
        IF request'.authorization = Some(BasicCredential(USERNAME, PASSWORD))
        THEN dispatched' /\ handler' = HandlerOf(request'.method)
        ELSE /\ response'.status = 401
             /\ response'.www_authenticate = Some("Basic realm=\"webdav\"")
             /\ ~dispatched'
             /\ handler' = None
             /\ calls' = <<>>
             /\ bucket' = bucket ]_vars

\* a DELETE of a stored key with the header of another password, refused
C1_Witness ==
  /\ request # NoRequest
  /\ request.method = "DELETE"
  /\ request.authorization \notin {None, Some(BasicCredential(USERNAME, PASSWORD))}
  /\ starts_with(request.authorization[1], <<"B", "a", "s", "i", "c", " ">>)
  /\ Key \in DOMAIN bucket
  /\ response.status = 401

(***************************************************************************)
(* C2.  PROPFIND with Depth 1 on a directory path with key K, the stored   *)
(* keys all under K: the multistatus holds the self-entry for K, one       *)
(* fragment for each object that is a direct child file of K, exactly one  *)
(* synthetic-directory fragment for each distinct immediate child          *)
(* directory name (also for a child directory named like K, as with        *)
(* K/K/x), and no other fragment, so none for an object deeper than one    *)
(* level.                                                                  *)
(***************************************************************************)
\* k lies in directory K (every key lies in the root), and its path from there
InDirectory(K, k) == Len(K) = 0 \/ (Under(K, k) /\ Len(k) > Len(K) + 1)
RelativeTo(K, k) == IF Len(K) = 0 THEN k ELSE slice_from(k, Len(K) + 1)

ChildFiles(K) ==
  {k \in DOMAIN bucket : InDirectory(K, k) /\ ~contains(RelativeTo(K, k), "/")}

ChildDirectories(K) ==
  {split_first(RelativeTo(K, k), "/") :
     k \in {x \in DOMAIN bucket : InDirectory(K, x) /\ contains(RelativeTo(K, x), "/")}}

C2_DepthOneListing ==
  ( /\ Serving("PROPFIND")
    /\ DirectoryPath
    /\ request.depth = Some("1")
    /\ response.status = 200
    /\ \A k \in DOMAIN bucket : InDirectory(Key, k) )
  =>
  /\ Len(response.frags) = 1 + Cardinality(ChildFiles(Key))
                             + Cardinality(ChildDirectories(Key))
  /\ response.frags[1].href = <<"/">> \o Key
  /\ response.frags[1].resourcetype = "<collection />"
  /\ \A k \in ChildFiles(Key) :
       \E i \in 2..Len(response.frags) :
         /\ response.frags[i].href = <<"/">> \o k
         /\ response.frags[i].resourcetype = ""
  /\ Cardinality({i \in 2..Len(response.frags) :
                    response.frags[i].resourcetype = "<collection />"})
       = Cardinality(ChildDirectories(Key))

(***************************************************************************)
(* C3.  Directory existence: PROPFIND with Depth 1 on a directory path     *)
(* with non-empty key K answers 404 exactly when no stored key begins with *)
(* K followed by '/', and 200 otherwise; a key that only shares K as a     *)
(* string prefix does not make the directory exist.                        *)
(***************************************************************************)
C3_DirectoryExists ==
  ( /\ Serving("PROPFIND")
    /\ DirectoryPath
    /\ request.depth = Some("1")
    /\ Len(Key) > 0 )
  =>
  IF \E k \in DOMAIN bucket : Under(Key, k)
  THEN response.status = 200
  ELSE response.status = 404

(***************************************************************************)
(* C4.  As claimed: every authenticated PROPFIND with Depth "infinity" is  *)
(* answered 501, and with a Depth that is none of "0", "1", "infinity" is  *)
(* answered 403, whatever its path and whatever the bucket holds.          *)
(***************************************************************************)
C4_DepthAlways ==
  Serving("PROPFIND") =>
    /\ request.depth = Some("infinity") => response.status = 501
    /\ request.depth \notin {None, Some("0"), Some("1"), Some("infinity")}
         => response.status = 403

(***************************************************************************)
(* C4, amended.  The same for the PROPFIND requests that reach the match   *)
(* on Depth, those whose path ends in '/' or whose key is empty: Depth     *)
(* "infinity" is answered 501 and a Depth that is none of "0", "1",        *)
(* "infinity" is answered 403, whatever the bucket holds.                  *)
(***************************************************************************)
C4_DepthOfDirectory ==
  (Serving("PROPFIND") /\ DirectoryPath) =>
    /\ request.depth = Some("infinity") => response.status = 501
    /\ request.depth \notin {None, Some("0"), Some("1"), Some("infinity")}
         => response.status = 403

\* Depth: infinity on a directory that has objects under it
C4_Witness ==
  /\ Serving("PROPFIND")
  /\ DirectoryPath
  /\ Len(Key) > 0
  /\ request.depth = Some("infinity")
  /\ \E k \in DOMAIN bucket : Under(Key, k)
  /\ response.status = 501

(***************************************************************************)
(* C5.  PROPFIND on a path that does not end in '/' and has a non-empty    *)
(* key K: with an object stored at K the answer is 200 with exactly one    *)
(* fragment, whose href is "/" + K; with none it is 404 and no listing is  *)
(* performed, also when objects are stored under K + "/".                  *)
(***************************************************************************)
C5_FilePath ==
  ( /\ Serving("PROPFIND")
    /\ ~ends_with(request.path, "/")
    /\ Len(Key) > 0 )
  =>
  IF Key \in DOMAIN bucket
  THEN /\ response.status = 200
       /\ Len(response.frags) = 1
       /\ response.frags[1].href = <<"/">> \o Key
  ELSE /\ response.status = 404
       /\ response.frags = <<>>
       /\ "list" \notin CallKinds

\* a miss on a key that has objects under it
C5_Witness ==
  /\ Serving("PROPFIND")
  /\ ~ends_with(request.path, "/")
  /\ Key \notin DOMAIN bucket
  /\ \E k \in DOMAIN bucket : Under(Key, k)
  /\ response.status = 404

(***************************************************************************)
(* What the properties of a step speak of.                                 *)
(***************************************************************************)
\* the step serves a request of this method that passes the gate
Dispatching(method) ==
  /\ request' # NoRequest
  /\ dispatched'
  /\ request'.method = method

\* the key of the request the step serves
NextKey == KeyOf(request'.path)

\* the keys MKCOL has created, with no DELETE since
CreatedKeys == {c.key : c \in created}

\* the step leaves every object stored at a key of keys as it was
Kept(keys) == \A k \in keys : k \in DOMAIN bucket' /\ bucket'[k] = bucket[k]

(***************************************************************************)
(* C6.  MKCOL twice on the same non-empty key K with no DELETE in between: *)
(* the first call, with no marker stored at K + "/", is answered 201 and   *)
(* stores an object with an empty body at K + "/", every other object left *)
(* as it was; a later MKCOL on K is answered 409 and leaves the bucket     *)
(* unchanged, whatever requests other than DELETE were served in between.  *)
(***************************************************************************)
C6_MkcolTwice ==
  [][ (Dispatching("MKCOL") /\ Len(NextKey) > 0) =>
        /\ NextKey \o <<"/">> \notin DOMAIN bucket =>
              /\ response'.status = 201
              /\ DOMAIN bucket' = DOMAIN bucket \cup {NextKey \o <<"/">>}
              /\ bucket'[NextKey \o <<"/">>].body = <<>>
              /\ Kept(DOMAIN bucket)
        /\ NextKey \in CreatedKeys =>
              /\ response'.status = 409
              /\ bucket' = bucket ]_vars

\* the second MKCOL on a key, refused, after a request of another method and
\* with another object in the bucket
C6_Witness ==
  /\ Serving("MKCOL")
  /\ response.status = 409
  /\ [key |-> Key, between |-> TRUE] \in created
  /\ Key \o <<"/">> \in DOMAIN bucket
  /\ Cardinality(DOMAIN bucket) > 1

(***************************************************************************)
(* C7.  DELETE on a key K at which an object is stored is answered 204 and *)
(* removes that object alone: every other key, the keys that begin with    *)
(* K + "/" among them, is stored afterwards with the object it had.        *)
(***************************************************************************)
C7_DeleteLeaf ==
  [][ (Dispatching("DELETE") /\ NextKey \in DOMAIN bucket) =>
        /\ response'.status = 204
        /\ DOMAIN bucket' = DOMAIN bucket \ {NextKey}
        /\ Kept(DOMAIN bucket \ {NextKey}) ]_vars

\* the object at K deleted by head and delete alone, an object under K + "/"
\* still stored
C7_Witness ==
  /\ Serving("DELETE")
  /\ response.status = 204
  /\ calls = << <<"head", Key>>, <<"delete", Key>> >>
  /\ Key \notin DOMAIN bucket
  /\ \E k \in DOMAIN bucket : Under(Key, k)

(***************************************************************************)
(* C8.  DELETE on a key K with no object stored at K itself: with at least *)
(* one object under the prefix (a key that begins with K + "/"; every key, *)
(* for the root) the answer is 204 and no stored key begins with K + "/"   *)
(* afterwards; with none the answer is 404 and the bucket is unchanged.    *)
(***************************************************************************)
\* k is under the prefix of directory K
UnderPrefix(K, k) == Len(K) = 0 \/ Under(K, k)

C9_PutThenGet ==
  ( /\ Serving("GET")
    /\ request.range = None
    /\ ~ends_with(request.path, "/")
    /\ last_put # None
    /\ last_put[1].key = Key )
  =>
  /\ response.status = 200
  /\ response.stream = Some(last_put[1].body)
  /\ response.content_type = last_put[1].content_type

(***************************************************************************)
(* C10.  As claimed: every authenticated GET that carries a Range header   *)
(* is answered 405 and returns no object body, whatever the path (the      *)
(* paths that end in '/' included) and whether or not the object exists.   *)
(***************************************************************************)
C10_RangeAlways ==
  (Serving("GET") /\ request.range # None) =>
    /\ response.status = 405
    /\ response.stream = None

(***************************************************************************)
(* C10, amended.  An authenticated GET that carries a Range header and     *)
(* whose path does not end in '/' is answered 405, whether or not the      *)
(* object exists; on every path a GET with a Range header returns no       *)
(* object body and reads nothing from the bucket.                          *)
(***************************************************************************)
C10_RangeOfObject ==
  (Serving("GET") /\ request.range # None) =>
    /\ ~ends_with(request.path, "/") => response.status = 405
    /\ response.stream = None
    /\ calls = <<>>

\* a Range request for an object that is stored
C10_Witness ==
  /\ Serving("GET")
  /\ request.range # None
  /\ ~ends_with(request.path, "/")
  /\ Key \in DOMAIN bucket
  /\ response.status = 405

(***************************************************************************)
(* C11.  As claimed: every OPTIONS request is answered 204 with the header *)
(* DAV: 1, 2 and an Allow header, with no backend call, whatever its path  *)
(* and whatever the bucket holds.                                          *)
(***************************************************************************)
C11_OptionsAlways ==
  (request # NoRequest /\ request.method = "OPTIONS") =>
    /\ response.status = 204
    /\ response.dav = Some("1, 2")
    /\ response.allow # None
    /\ calls = <<>>

(***************************************************************************)
(* C11, amended.  Every OPTIONS request that carries the accepted          *)
(* Authorization header is answered 204 with the header DAV: 1, 2 and an   *)
(* Allow header; every OPTIONS request, accepted or not, is handled with   *)
(* no backend call and leaves the bucket as it was, whatever its path and  *)
(* whatever the bucket holds.                                              *)
(***************************************************************************)
C11_OptionsAuthorized ==
  [][ (request' # NoRequest /\ request'.method = "OPTIONS") =>
        /\ dispatched' =>
             /\ response'.status = 204
             /\ response'.dav = Some("1, 2")
             /\ response'.allow # None
        /\ calls' = <<>>
        /\ bucket' = bucket ]_vars

\* OPTIONS on a directory path answered with objects stored under it
C11_Witness ==
  /\ Serving("OPTIONS")
  /\ \E k \in DOMAIN bucket : Under(Key, k)
  /\ response.status = 204
  /\ response.allow = Some(METHODS)

(***************************************************************************)
(* C12.  list_all_files returns the full list of the objects under the     *)
(* prefix: whatever the bucket holds, the result holds each object whose   *)
(* key matches the prefix exactly once, in the order of the backend's      *)
(* listing, and is the concatenation of the pages; the first page is       *)
(* requested without a cursor, each later page with the cursor the page    *)
(* before it returned, and the page of the last call is not truncated.     *)
(***************************************************************************)
\* the prefixes list_all_files is asked for
Prefixes == {KeyOf(path) : path \in Paths}

\* the objects of the bucket that match the prefix, in listing order
FullListing(prefix) ==
  [i \in 1..Cardinality(Matching(bucket, prefix)) |->
     ObjectOf(bucket, SortedKeys(Matching(bucket, prefix))[i])]

RECURSIVE PagesOf(_, _)
\* the objects of the pages the list calls of a listing returned, in order
PagesOf(listed, n) ==
  IF n = 0 THEN <<>>
  ELSE PagesOf(listed, n - 1)
         \o bucket_list(bucket, listed.calls[n][2], listed.calls[n][3]).objects

\* what the claim says of one listing
FullyListed(prefix, listed) ==
  /\ listed.files = FullListing(prefix)
  /\ \A k \in Matching(bucket, prefix) :
       Cardinality({i \in 1..Len(listed.files) : listed.files[i].key = k}) = 1
  /\ \A i \in 1..Len(listed.files) : listed.files[i].key \in Matching(bucket, prefix)
  /\ listed.files = PagesOf(listed, Len(listed.calls))
  /\ Len(listed.calls) > 0
  /\ listed.calls[1] = <<"list", prefix, None>>
  /\ \A n \in 2..Len(listed.calls) :
       /\ bucket_list(bucket, prefix, listed.calls[n - 1][3]).truncated
       /\ listed.calls[n] =
            <<"list", prefix, bucket_list(bucket, prefix, listed.calls[n - 1][3]).cursor>>
  /\ ~bucket_list(bucket, prefix, listed.calls[Len(listed.calls)][3]).truncated

\* for the bucket as it is between two requests and every prefix, and for the
\* list calls of a PROPFIND with Depth 1 being served (it leaves the bucket
\* as it is)
C12_ListAll ==
  /\ request = NoRequest =>
        \A prefix \in Prefixes :
          \E listed \in {list_all_files(bucket, prefix)} : FullyListed(prefix, listed)
  /\ (Serving("PROPFIND") /\ DirectoryPath /\ request.depth \in {None, Some("1")}) =>
        \E listed \in {list_all_files(bucket, Key)} :
          /\ calls = listed.calls
          /\ FullyListed(Key, listed)

\* a PROPFIND of the root served from a listing of more than one page
C12_Witness ==
  /\ Serving("PROPFIND")
  /\ response.status = 200
  /\ Len(calls) > 1
  /\ calls[1] = <<"list", <<>>, None>>
  /\ calls[2][1] = "list"
  /\ calls[2][3] # None
  /\ Len(response.frags) = 1 + Cardinality(DOMAIN bucket)

(***************************************************************************)
(* C13.  A PUT or MKCOL whose path trims to the empty key is answered 405, *)
(* issues no backend put and leaves the bucket unchanged.                  *)
(***************************************************************************)
C13_EmptyKey ==
  [][ ( /\ Dispatching("PUT") \/ Dispatching("MKCOL")
        /\ Len(NextKey) = 0 ) =>
        /\ response'.status = 405
        /\ \A i \in 1..Len(calls') : calls'[i][1] # "put"
        /\ bucket' = bucket ]_vars

\* a PUT of a body to "/" refused, with objects in the bucket
C13_Witness ==
  /\ Serving("PUT")
  /\ Len(Key) = 0
  /\ Len(request.body) > 0
  /\ DOMAIN bucket # {}
  /\ response.status = 405

(***************************************************************************)
(* C14.  A DELETE on key K that takes the directory branch (no object is   *)
(* stored at K) removes no object whose key is neither K nor begins with   *)
(* K + "/": such an object is stored afterwards as it was, as a DELETE of  *)
(* docs leaves docs2/a.txt and docsfile.                                   *)
(***************************************************************************)
C14_DeleteSubtree ==
  [][ (Dispatching("DELETE") /\ Len(NextKey) > 0 /\ NextKey \notin DOMAIN bucket) =>
        Kept({k \in DOMAIN bucket : k # NextKey /\ ~Under(NextKey, k)}) ]_vars

(***************************************************************************)
(* C15.  Every fragment of a PROPFIND multistatus has the href "/" + the   *)
(* full key of the resource it describes: "/" + K for the self-entry,      *)
(* "/" + the object's key for a file, and "/" + K + "/" + name for the     *)
(* synthetic child directory name of a directory K that is not the root    *)
(* (for the root, "/" + name).                                             *)
(***************************************************************************)
\* the href of child directory name of directory K
ChildHref(K, name) ==
  IF Len(K) = 0 THEN <<"/">> \o name ELSE <<"/">> \o K \o <<"/">> \o name

\* with the stored keys all in the directory asked for
C15_FragmentHref ==
  ( /\ Serving("PROPFIND")
    /\ response.status = 200
    /\ \A k \in DOMAIN bucket : InDirectory(Key, k) ) =>
    /\ DirectoryPath => response.frags[1].href = <<"/">> \o Key
    /\ \A i \in 1..Len(response.frags) :
         \/ i = 1 /\ DirectoryPath
         \/ /\ response.frags[i].resourcetype = ""
            /\ \E k \in DOMAIN bucket : response.frags[i].href = <<"/">> \o k
         \/ /\ response.frags[i].resourcetype = "<collection />"
            /\ \E name \in ChildDirectories(Key) :
                 response.frags[i].href = ChildHref(Key, name)

(***************************************************************************)
(* C18.  LOCK and UNLOCK are stateless: a LOCK or UNLOCK that reaches its  *)
(* handler issues no backend call and leaves the bucket as it was, so that *)
(* a PUT, DELETE, MKCOL, GET or PROPFIND of the same path served after it  *)
(* has the response and the effect it would have had before it; LOCK       *)
(* answers with its canned document, and UNLOCK answers 204 whatever       *)
(* Lock-Token it carries.                                                  *)
(***************************************************************************)
\* the response and the effect of a later request of the method on the path
\* that passes the gate, served from bucket b
Later(method, path, b) ==
  dispatch_request([Request(method, path, None) EXCEPT !.body = <<"x">>], b)

C18_LockStateless ==
  [][ (Dispatching("LOCK") \/ Dispatching("UNLOCK")) =>
        /\ bucket' = bucket
        /\ calls' = <<>>
        /\ \A method \in {"PUT", "DELETE", "MKCOL", "GET", "PROPFIND"} :
             Later(method, request'.path, bucket') = Later(method, request'.path, bucket)
        /\ request'.method = "LOCK" =>
             response'.status = 200 /\ response'.lock # None
        /\ request'.method = "UNLOCK" => response'.status = 204 ]_vars

\* an UNLOCK with a token nobody was given, on a path with a stored object
C18_Witness ==
  /\ Serving("UNLOCK")
  /\ request.lock_token = Some("x")
  /\ Key \in DOMAIN bucket
  /\ response.status = 204

(***************************************************************************)
(* C20.  In a PROPFIND Depth 1 response for directory key K the directory  *)
(* is described by the first fragment alone and is not emitted again as a  *)
(* child: after a MKCOL of K answered 201, with nothing else stored under  *)
(* K, the listing returns the marker K + "/" alone and the PROPFIND of K   *)
(* is answered 200 with the self-entry and no other fragment.              *)
(***************************************************************************)
C20_FreshDirectory ==
  ( /\ Serving("PROPFIND")
    /\ DirectoryPath
    /\ request.depth \in {None, Some("1")}
    /\ Key \in CreatedKeys
    /\ Matching(bucket, Key) = {Key \o <<"/">>} )
  =>
  /\ response.status = 200
  /\ Len(response.frags) = 1
  /\ response.frags[1].href = <<"/">> \o Key

(***************************************************************************)
(* Concurrent invocations.  The runtime serves each request in an          *)
(* invocation of main of its own, and every backend call of a handler is   *)
(* an await: other invocations run between two calls of one handler, and   *)
(* each call can return Err, which `?` turns into the end of the handler.  *)
(* Here handle_put, handle_mkcol and handle_delete (with list_all_files)   *)
(* are taken one backend call at a time, for requests that have passed the *)
(* gate of main.                                                           *)
(***************************************************************************)
\* the list calls one invocation is followed for
MaxListCalls == 2

\* the requests that come in: for a file in a directory, for the directory
\* itself, and a PUT to the root
Requests ==
  { [method |-> "PUT", path |-> <<"/", "a", "/", "b">>],
    [method |-> "PUT", path |-> <<"/">>],
    [method |-> "MKCOL", path |-> <<"/", "a">>],
    [method |-> "DELETE", path |-> <<"/", "a">>],
    [method |-> "DELETE", path |-> <<"/", "a", "/", "b">>] }

BackendCall(kind, key, cursor, ok) ==
  [kind |-> kind, key |-> key, cursor |-> cursor, ok |-> ok]

\* the key of the head and put calls: flag for handle_mkcol, else key
Target(inv) == IF inv.method = "MKCOL" THEN inv.key \o <<"/">> ELSE inv.key

\* the backend call the invocation is at
NextCall(inv, ok) ==
  CASE inv.pc = "head" -> BackendCall("head", Target(inv), None, ok)
    [] inv.pc = "put" -> BackendCall("put", Target(inv), None, ok)
    [] inv.pc = "list" -> BackendCall("list", inv.key, inv.cursor, ok)
    [] inv.pc = "delete_file" -> BackendCall("delete", inv.files[inv.i], None, ok)
    [] inv.pc = "delete_key" -> BackendCall("delete", inv.key, None, ok)

\* the invocation with the call it is at issued
Called(inv, ok) == [inv EXCEPT !.calls = Append(@, NextCall(inv, ok))]

ListCalls(inv) ==
  Cardinality({j \in 1..Len(inv.calls) : inv.calls[j].kind = "list"})

\* the handler up to its first backend call: handle_put and handle_mkcol
\* answer 405 for the empty key
received(method, key, peers) ==
  IF method \in {"PUT", "MKCOL"} /\ Len(key) = 0
  THEN [Idle EXCEPT !.pc = "done", !.method = method, !.key = key, !.status = 405,
                    !.peers = peers]
  ELSE [Idle EXCEPT !.pc = IF method = "PUT" THEN "put" ELSE "head",
                    !.method = method, !.key = key, !.peers = peers]

\* an invocation in flight when a request of the method comes in
joined(inv, method) ==
  IF inv.pc = "idle" THEN inv
  ELSE [inv EXCEPT !.peers = IF method = "DELETE" \/ @ = "delete" THEN "delete"
                             ELSE "other"]

\* bucket.head(..).await? returned: handle_mkcol answers 409 or goes on to
\* its put, handle_delete goes on to bucket.delete(key) or to the listing
head_returned(inv, object) ==
  IF inv.method = "MKCOL"
  THEN IF object # None THEN [inv EXCEPT !.pc = "done", !.status = 409]
       ELSE [inv EXCEPT !.pc = "put"]
  ELSE IF object = None THEN [inv EXCEPT !.pc = "list"]
       ELSE [inv EXCEPT !.pc = "delete_key"]

\* handle_delete after list_all_files returned
files_listed(inv) ==
  IF Len(inv.files) = 0 THEN [inv EXCEPT !.pc = "done", !.status = 404]
  ELSE [inv EXCEPT !.pc = "delete_file", !.i = 1]

\* the keys of the objects of a page
PageKeys(objects) == [j \in 1..Len(objects.objects) |-> objects.objects[j].key]

\* list_req.execute().await? returned a page: the rest of the turn of the loop
list_returned(inv, objects) ==
  IF ~objects.truncated
  THEN files_listed([inv EXCEPT !.files = @ \o PageKeys(objects)])
  ELSE [inv EXCEPT !.files = @ \o PageKeys(objects), !.cursor = objects.cursor]

\* bucket.delete(f.key()).await? returned Ok: the next file, or bucket.delete(key)
file_deleted(inv) ==
  [inv EXCEPT !.i = @ + 1,
              !.pc = IF inv.i = Len(inv.files) THEN "delete_key" ELSE "delete_file"]

\* a backend call returned Err, with a loop of handle_delete that goes on to
\* the next file when the delete of one fails
backend_err_skipped(inv) ==
  IF inv.pc = "delete_file" THEN file_deleted(Called(inv, FALSE))
  ELSE [Called(inv, FALSE) EXCEPT !.pc = "done", !.status = 500, !.at = inv.pc]

\* a backend call returned Err: `?` returns it from the handler, and the
\* runtime answers with a server error
backend_err(inv) ==
  [Called(inv, FALSE) EXCEPT !.pc = "done", !.status = 500, !.at = inv.pc]

\* what the steps of the invocations leave alone
served == <<USERNAME, PASSWORD, request, response, calls, dispatched, handler,
            created, last_put>>

\* what is in flight among the invocations ws
PeersOf(ws) ==
  IF \E u \in ws : invocations[u].method = "DELETE" THEN "delete"
  ELSE IF \E u \in ws : invocations[u].pc # "idle" THEN "other"
  ELSE "none"

\* invocation w goes on as inv
Continue(w, inv) == invocations' = [invocations EXCEPT ![w] = inv]

\* A request that passes the gate comes in and is handed to its handler.
Receive(w) ==
  \E req \in Requests :
    /\ invocations[w].pc = "idle"
    /\ invocations' =
         [v \in Workers |->
            IF v = w
            THEN received(req.method, KeyOf(req.path),
                          PeersOf(Workers \ {w}))
            ELSE joined(invocations[v], req.method)]
    /\ UNCHANGED <<bucket, served>>

\* bucket.head(key) of handle_delete, bucket.head(&flag) of handle_mkcol
HeadReturns(w) ==
  /\ invocations[w].pc = "head"
  /\ Continue(w, head_returned(Called(invocations[w], TRUE),
                               bucket_head(bucket, Target(invocations[w]))))
  /\ UNCHANGED <<bucket, served>>

\* bucket.put(..).execute() of handle_put and handle_mkcol, then 201
PutReturns(w) ==
  /\ invocations[w].pc = "put"
  /\ Cardinality(DOMAIN bucket \cup {Target(invocations[w])}) <= MaxObjects
  /\ bucket' = bucket_put(bucket, Target(invocations[w]),
                          IF invocations[w].method = "PUT" THEN <<"x">> ELSE <<>>)
  /\ Continue(w, [Called(invocations[w], TRUE) EXCEPT !.pc = "done", !.status = 201])
  /\ UNCHANGED served

\* one turn of the loop of list_all_files, the backend returning the page
\* after the cursor
ListReturns(w) ==
  /\ invocations[w].pc = "list"
  /\ ListCalls(invocations[w]) < MaxListCalls
  /\ Continue(w, list_returned(Called(invocations[w], TRUE),
                   bucket_list(bucket, invocations[w].key, invocations[w].cursor)))
  /\ UNCHANGED <<bucket, served>>

\* the same turn, the backend reporting the page as truncated and returning
\* no cursor with it
ListReturnsNoCursor(w) ==
  /\ invocations[w].pc = "list"
  /\ ListCalls(invocations[w]) < MaxListCalls
  /\ Continue(w, list_returned(Called(invocations[w], TRUE),
                   [bucket_list(bucket, invocations[w].key, invocations[w].cursor)
                      EXCEPT !.truncated = TRUE, !.cursor = None]))
  /\ UNCHANGED <<bucket, served>>

\* bucket.delete(f.key()) in the loop of handle_delete
DeleteFileReturns(w) ==
  /\ invocations[w].pc = "delete_file"
  /\ bucket' = bucket_delete(bucket, invocations[w].files[invocations[w].i])
  /\ Continue(w, file_deleted(Called(invocations[w], TRUE)))
  /\ UNCHANGED served

\* bucket.delete(key) at the end of handle_delete, then 204
DeleteKeyReturns(w) ==
  /\ invocations[w].pc = "delete_key"
  /\ bucket' = bucket_delete(bucket, invocations[w].key)
  /\ Continue(w, [Called(invocations[w], TRUE) EXCEPT !.pc = "done", !.status = 204])
  /\ UNCHANGED served

\* the backend call the invocation is at returns Err
CallFails(w) ==
  /\ invocations[w].pc \in {"head", "put", "list", "delete_file", "delete_key"}
  /\ invocations[w].pc = "list" => ListCalls(invocations[w]) < MaxListCalls
  /\ Continue(w, backend_err(invocations[w]))
  /\ UNCHANGED <<bucket, served>>

\* the response leaves the invocation
Respond(w) ==
  /\ invocations[w].pc = "done"
  /\ Continue(w, Idle)
  /\ UNCHANGED <<bucket, served>>

NextConcurrent ==
  \E w \in Workers :
    \/ Receive(w)
    \/ HeadReturns(w)
    \/ PutReturns(w)
    \/ ListReturns(w)
    \/ ListReturnsNoCursor(w)
    \/ DeleteFileReturns(w)
    \/ DeleteKeyReturns(w)
    \/ CallFails(w)
    \/ Respond(w)

SpecConcurrent == Init /\ [][NextConcurrent]_vars

(***************************************************************************)
(* What the properties of concurrent invocations speak of.                 *)
(***************************************************************************)
\* the step is a backend call of invocation w at pc that returns Err
FailsAt(w, pc) ==
  /\ invocations[w].pc = pc
  /\ Len(invocations'[w].calls) = Len(invocations[w].calls) + 1
  /\ ~invocations'[w].calls[Len(invocations'[w].calls)].ok

\* the files of the invocation from position from to position to
FilesOf(inv, from, to) == {inv.files[j] : j \in from..to}

\* the listing of the invocation returned no key twice
ListedOnce(inv) ==
  \A j, k \in 1..Len(inv.files) : inv.files[j] = inv.files[k] => j = k

(***************************************************************************)
(* C16.  Partial failure of a directory DELETE: when a backend delete      *)
(* returns an error while handle_delete deletes the listed children, the   *)
(* request ends with an error, never 204; the invocation issues no further *)
(* backend call; and nothing is retried or rolled back: the failing step   *)
(* leaves the bucket as it is, so that, with no other request in flight    *)
(* and each child listed once, the children deleted before the failure are *)
(* not stored and the children not yet reached are.                        *)
(***************************************************************************)
C16_PartialDelete ==
  [][ \A w \in Workers :
        /\ FailsAt(w, "delete_file") =>
             ( /\ invocations'[w].pc = "done"
               /\ invocations'[w].status = 500
               /\ bucket' = bucket
               /\ (invocations'[w].peers = "none" /\ ListedOnce(invocations[w])) =>
                    ( /\ FilesOf(invocations[w], 1, invocations[w].i - 1)
                           \cap DOMAIN bucket' = {}
                      /\ FilesOf(invocations[w], invocations[w].i,
                                 Len(invocations[w].files))
                           \subseteq DOMAIN bucket' ) )
        /\ (invocations[w].pc = "done" /\ invocations[w].at = "delete_file") =>
             ( /\ \/ invocations'[w] = Idle
                  \/ /\ invocations'[w].pc = "done"
                     /\ invocations'[w].status = 500
                     /\ invocations'[w].calls = invocations[w].calls
               /\ (\A v \in Workers \ {w} : invocations'[v] = invocations[v])
                    => bucket' = bucket ) ]_vars

\* a DELETE alone in flight that failed at its second child: the first is
\* deleted, the second is stored
C16_Witness ==
  \E w \in Workers :
    /\ invocations[w].method = "DELETE"
    /\ invocations[w].pc = "done"
    /\ invocations[w].at = "delete_file"
    /\ invocations[w].peers = "none"
    /\ invocations[w].i = 2
    /\ Len(invocations[w].files) = 2
    /\ invocations[w].files[1] \notin DOMAIN bucket
    /\ invocations[w].files[2] \in DOMAIN bucket
    /\ invocations[w].status = 500

(***************************************************************************)
(* C17.  The loop of list_all_files terminates without asking for a page   *)
(* twice: the list calls of one invocation all carry different cursors,    *)
(* the first none and each later one the cursor of the page before it,     *)
(* also when the backend reports a page as truncated and returns no cursor *)
(* with it.                                                                *)
(***************************************************************************)
\* the positions of the list calls that returned a page
ListPositions(inv) ==
  {j \in 1..Len(inv.calls) : inv.calls[j].kind = "list" /\ inv.calls[j].ok}

C17_ListTerminates ==
  \A w \in Workers :
    \A j, k \in ListPositions(invocations[w]) :
      invocations[w].calls[j].cursor = invocations[w].calls[k].cursor => j = k

(***************************************************************************)
(* C19.  Two MKCOL requests for the same non-empty key handled at the same *)
(* time, their head and put calls interleaved in any order and no DELETE   *)
(* in flight with them: when both have answered 201 or 409, at most one of *)
(* them has answered 201.                                                  *)
(***************************************************************************)
\* invocation w has answered a MKCOL for the key, no DELETE in flight with it
MkcolDone(w, key) ==
  /\ invocations[w].method = "MKCOL"
  /\ invocations[w].key = key
  /\ invocations[w].pc = "done"
  /\ invocations[w].status \in {201, 409}
  /\ invocations[w].peers # "delete"

C19_ConcurrentMkcol ==
  \A w \in Workers, v \in Workers :
    (w # v /\ Len(invocations[w].key) > 0
       /\ MkcolDone(w, invocations[w].key) /\ MkcolDone(v, invocations[w].key))
    => ~(invocations[w].status = 201 /\ invocations[v].status = 201)

====
